---------------------------- MODULE Spec2Model ----------------------------
(***************************************************************************)
(* Model of the terminal clicker game (src/clicker-game.ts).               *)
(*                                                                         *)
(* Numbers.  The program keeps points in JavaScript doubles.  The model    *)
(* keeps them in fixed point: one unit is 1/Scale of a point.  The         *)
(* smallest production rate is 0.1 point per second and the clock counts   *)
(* milliseconds, so one unit = 0.1 * 0.001 = 1/10000 point and every       *)
(* amount the program computes is a whole number of units.  Rounding of    *)
(* the double additions is not modelled, except in getBuildingCost, whose  *)
(* floor makes the rounding of the double product visible.                 *)
(*                                                                         *)
(* Time.  Date.now() is the variable now, advanced by ClockAdvance; the    *)
(* wall clock is taken not to run backwards.                               *)
(***************************************************************************)
EXTENDS Integers, Sequences, FiniteSets, TLC

(***************************************************************************)
(* Bounds of the exploration.                                              *)
(***************************************************************************)
MaxClock == 2
MaxClicked == 15
MaxCount == 2
MaxEarned == 320
\* the clock advances in steps of ClockStep milliseconds
ClockStep == 1000000
\* timer periods explored from a game in progress
MaxIntervalTicks == 2

(***************************************************************************)
(* Program constants.                                                      *)
(***************************************************************************)
\* baseProduction is given in tenths of a point (0.1), elapsed in seconds
\* from milliseconds (/ 1000)
TenthsPerPoint == 10
MsPerSecond == 1000
Scale == TenthsPerPoint * MsPerSecond
\* setInterval(gameLoop, 100): the period of the timer in milliseconds
TickInterval == 100
BuildingIndex == 0 .. 2
UpgradeIndex == 0 .. 1

name(i) == CASE i = 0 -> "Cursor" [] i = 1 -> "Farm" [] OTHER -> "Factory"
baseCost(i) == CASE i = 0 -> 15 [] i = 1 -> 100 [] OTHER -> 1100
\* baseProduction in tenths of a point per second: 0.1, 1, 8
baseProduction(i) == CASE i = 0 -> 1 [] i = 1 -> 10 [] OTHER -> 80
upgradeCost(i, j) ==
  CASE i = 0 /\ j = 0 -> 100
    [] i = 0 /\ j = 1 -> 500
    [] i = 1 /\ j = 0 -> 1000
    [] i = 1 /\ j = 1 -> 5000
    [] i = 2 /\ j = 0 -> 12000
    [] OTHER -> 60000
productionMultiplier(i, j) == IF j = 0 THEN 2 ELSE 3

\* One building of gameState: the two fields the program ever changes.
Building(c, pa, pb) ==
  [count |-> c, purchased |-> [j \in UpgradeIndex |-> IF j = 0 THEN pa ELSE pb]]

\* The literal of lines 30-103, with lastSaved: Date.now() read at time t.
InitialGameState(t) ==
  [points |-> 0,
   totalPointsEarned |-> 0,
   clickPower |-> 1 * Scale,
   buildings |-> [i \in BuildingIndex |-> Building(0, FALSE, FALSE)],
   lastSaved |-> t]

(***************************************************************************)
(* Persistence: the save file and the JSON conversion.                     *)
(* A document is the sequence of the top-level members JSON.stringify      *)
(* writes, in the order of the object's keys; each building is written as  *)
(* the triple of its count and its two purchased flags (the other members  *)
(* of a building are never changed by the program).                        *)
(***************************************************************************)
NoFile == [exists |-> FALSE, data |-> << >>]
\* A file cut short by a failed write: it exists and does not parse.
TruncatedFile == [exists |-> TRUE, data |-> << >>]

stringifyBuilding(b) == <<b.count, b.purchased[0], b.purchased[1]>>

\* stringify writing points for both points and totalPointsEarned
stringify_dropsTotal(gs) ==
  << <<gs.points>>, <<gs.points>>, <<gs.clickPower>>,
     <<stringifyBuilding(gs.buildings[0]),
       stringifyBuilding(gs.buildings[1]),
       stringifyBuilding(gs.buildings[2])>>,
     <<gs.lastSaved>> >>

stringify(gs) ==
  << <<gs.points>>, <<gs.totalPointsEarned>>, <<gs.clickPower>>,
     <<stringifyBuilding(gs.buildings[0]),
       stringifyBuilding(gs.buildings[1]),
       stringifyBuilding(gs.buildings[2])>>,
     <<gs.lastSaved>> >>

\* JSON.parse throws a SyntaxError on a document that is not complete.
parseThrows(data) == Len(data) # 5

parse(data) ==
  [points |-> data[1][1],
   totalPointsEarned |-> data[2][1],
   clickPower |-> data[3][1],
   buildings |-> [i \in BuildingIndex |->
                    Building(data[4][i + 1][1], data[4][i + 1][2], data[4][i + 1][3])],
   lastSaved |-> data[5][1]]

(***************************************************************************)
(* Economy model.                                                          *)
(***************************************************************************)
RECURSIVE Pow(_, _)
Pow(x, n) == IF n = 0 THEN 1 ELSE x * Pow(x, n - 1)

\* Math.floor(baseCost * Math.pow(1.15, count)), in points.  1.15 = 23/20.
\* The double nearest 1.15 lies below 1.15, and the double product
\* 100 * 1.15 is 114.99999999999999: where the exact product is the whole
\* number 115 the program's floor is one less.  (1100 * 1.15 rounds to 1265.)
getBuildingCost(i, b) ==
  LET exact == (baseCost(i) * Pow(23, b.count)) \div Pow(20, b.count)
  IN  IF baseCost(i) = 100 /\ b.count = 1 THEN exact - 1 ELSE exact

\* getBuildingProduction adding the multipliers instead of multiplying them
getBuildingProduction_additive(i, b) ==
  LET m0 == IF b.purchased[0] THEN productionMultiplier(i, 0) ELSE 0
      m1 == IF b.purchased[1] THEN productionMultiplier(i, 1) ELSE 0
  IN  b.count * baseProduction(i) * (1 + m0 + m1)

\* count * baseProduction * multiplier, in tenths of a point per second
getBuildingProduction(i, b) ==
  LET m0 == IF b.purchased[0] THEN productionMultiplier(i, 0) ELSE 1
      m1 == IF b.purchased[1] THEN productionMultiplier(i, 1) ELSE 1
  IN  b.count * baseProduction(i) * (1 * m0 * m1)

getTotalProduction(gs) ==
  0 + getBuildingProduction(0, gs.buildings[0])
    + getBuildingProduction(1, gs.buildings[1])
    + getBuildingProduction(2, gs.buildings[2])

(***************************************************************************)
(* State.                                                                  *)
(***************************************************************************)
VARIABLES
  gameState,    \* the GameState object
  file,         \* the save file clicker-save.json
  now,          \* Date.now(), in milliseconds since the first launch
  lastUpdate,   \* time of the previous tick
  pc,           \* "init" | "running" | "exited" | "crashed"
  timerActive,  \* gameInterval is set and not cleared
  exitCode,     \* exit code of the process once it has ended, else -1
  last,         \* the last event: its command, return value and console line
  bought        \* history: the upgrades buyUpgrade has sold since the launch

vars == <<gameState, file, now, lastUpdate, pc, timerActive, exitCode, last, bought>>

Event(cmd, ret, out) == [cmd |-> cmd, ret |-> ret, out |-> out]

(***************************************************************************)
(* Operations on the game state.  Each takes the state it reads and        *)
(* returns the state it leaves, with its return value.                     *)
(***************************************************************************)
\* click crediting the balance and not the lifetime counter
click_pointsOnly(gs) ==
  [gs EXCEPT !.points = @ + gs.clickPower]

click(gs) ==
  [gs EXCEPT !.points = @ + gs.clickPower,
             !.totalPointsEarned = @ + gs.clickPower]

\* buyBuilding with the comparison points > cost
buyBuilding_strict(gs, index) ==
  LET building == gs.buildings[index]
      cost == getBuildingCost(index, building) * Scale
  IN  IF gs.points > cost
      THEN [gs |-> [gs EXCEPT !.points = @ - cost,
                              !.buildings[index].count = @ + 1],
            ret |-> TRUE]
      ELSE [gs |-> gs, ret |-> FALSE]

\* buyBuilding without the test of the balance
buyBuilding_unchecked(gs, index) ==
  LET cost == getBuildingCost(index, gs.buildings[index]) * Scale
  IN  [gs |-> [gs EXCEPT !.points = @ - cost,
                         !.buildings[index].count = @ + 1],
       ret |-> TRUE]

\* buyBuilding interrupted between the debit and the increment of count
buyBuilding_halfApplied(gs, index) ==
  LET cost == getBuildingCost(index, gs.buildings[index]) * Scale
  IN  IF gs.points >= cost
      THEN [gs |-> [gs EXCEPT !.points = @ - cost], ret |-> TRUE]
      ELSE [gs |-> gs, ret |-> FALSE]

buyBuilding(gs, index) ==
  LET building == gs.buildings[index]
      cost == getBuildingCost(index, building) * Scale
  IN  IF gs.points >= cost
      THEN [gs |-> [gs EXCEPT !.points = @ - cost,
                              !.buildings[index].count = @ + 1],
            ret |-> TRUE]
      ELSE [gs |-> gs, ret |-> FALSE]

\* buyUpgrade without the test of the purchased flag
buyUpgrade_unchecked(gs, buildingIndex, upgradeIndex) ==
  LET cost == upgradeCost(buildingIndex, upgradeIndex) * Scale
  IN  IF gs.points >= cost
      THEN [gs |-> [gs EXCEPT !.points = @ - cost,
                              !.buildings[buildingIndex].purchased[upgradeIndex] = TRUE],
            ret |-> TRUE]
      ELSE [gs |-> gs, ret |-> FALSE]

\* buyUpgrade debiting the lifetime counter as well as the balance
buyUpgrade_debitsTotal(gs, buildingIndex, upgradeIndex) ==
  LET purchased == gs.buildings[buildingIndex].purchased[upgradeIndex]
      cost == upgradeCost(buildingIndex, upgradeIndex) * Scale
  IN  IF ~purchased /\ gs.points >= cost
      THEN [gs |-> [gs EXCEPT !.points = @ - cost,
                              !.totalPointsEarned = @ - cost,
                              !.buildings[buildingIndex].purchased[upgradeIndex] = TRUE],
            ret |-> TRUE]
      ELSE [gs |-> gs, ret |-> FALSE]

\* buyUpgrade assigning the outcome of the test to the purchased flag
buyUpgrade_assigns(gs, buildingIndex, upgradeIndex) ==
  LET purchased == gs.buildings[buildingIndex].purchased[upgradeIndex]
      cost == upgradeCost(buildingIndex, upgradeIndex) * Scale
      ok == ~purchased /\ gs.points >= cost
  IN  [gs |-> [gs EXCEPT !.points = IF ok THEN @ - cost ELSE @,
                         !.buildings[buildingIndex].purchased[upgradeIndex] = ok],
       ret |-> ok]

buyUpgrade(gs, buildingIndex, upgradeIndex) ==
  LET building == gs.buildings[buildingIndex]
      purchased == building.purchased[upgradeIndex]
      cost == upgradeCost(buildingIndex, upgradeIndex) * Scale
  IN  IF ~purchased /\ gs.points >= cost
      THEN [gs |-> [gs EXCEPT !.points = @ - cost,
                              !.buildings[buildingIndex].purchased[upgradeIndex] = TRUE],
            ret |-> TRUE]
      ELSE [gs |-> gs, ret |-> FALSE]

\* The outcomes of fs.writeFileSync: it returns, or it throws having left
\* the file as it was, or it throws having truncated the file.
WriteOutcome == {"written", "throws_untouched", "throws_truncated"}

\* saveGame: lastSaved is stamped before the write is attempted.
saveGame(gs, f, t, io) ==
  LET stamped == [gs EXCEPT !.lastSaved = t]
  IN  CASE io = "written" ->
             [gs |-> stamped,
              file |-> [exists |-> TRUE, data |-> stringify(stamped)],
              threw |-> FALSE, out |-> "Game saved!"]
        [] io = "throws_untouched" ->
             [gs |-> stamped, file |-> f, threw |-> TRUE, out |-> ""]
        [] OTHER ->
             [gs |-> stamped, file |-> TruncatedFile, threw |-> TRUE, out |-> ""]

\* loadGame falling back to a fresh game when the file does not parse
loadGame_resets(gs, f) ==
  IF f.exists
  THEN IF parseThrows(f.data)
       THEN [gs |-> InitialGameState(gs.lastSaved), ret |-> FALSE,
             out |-> "Error loading save file:"]
       ELSE [gs |-> parse(f.data), ret |-> TRUE, out |-> "Game loaded!"]
  ELSE [gs |-> gs, ret |-> FALSE, out |-> ""]

\* loadGame: the assignment to gameState happens only after JSON.parse has
\* returned; an exception is caught and logged.  An absent file logs nothing.
loadGame(gs, f) ==
  IF f.exists
  THEN IF parseThrows(f.data)
       THEN [gs |-> gs, ret |-> FALSE, out |-> "Error loading save file:"]
       ELSE [gs |-> parse(f.data), ret |-> TRUE, out |-> "Game loaded!"]
  ELSE [gs |-> gs, ret |-> FALSE, out |-> ""]

(***************************************************************************)
(* Input lines: sequences of characters.                                   *)
(***************************************************************************)
IsSpace(ch) == ch \in {" ", "\t"}

RECURSIVE trimStart(_)
trimStart(s) ==
  IF s # << >> /\ IsSpace(Head(s)) THEN trimStart(Tail(s)) ELSE s

RECURSIVE trimEnd(_)
trimEnd(s) ==
  IF s # << >> /\ IsSpace(s[Len(s)]) THEN trimEnd(SubSeq(s, 1, Len(s) - 1)) ELSE s

trim(s) == trimEnd(trimStart(s))

lowerChar(ch) ==
  CASE ch = "A" -> "a" [] ch = "B" -> "b" [] ch = "C" -> "c"
    [] ch = "L" -> "l" [] ch = "Q" -> "q" [] ch = "S" -> "s"
    [] ch = "X" -> "x" [] OTHER -> ch

\* toLowerCase left out of the normalisation of the line
toLowerCase_identity(s) == s

toLowerCase(s) == [k \in 1 .. Len(s) |-> lowerChar(s[k])]

\* parseInt of the one-digit inputs the switch passes to it
parseInt(s) == CASE s[1] = "1" -> 1 [] s[1] = "2" -> 2 [] s[1] = "3" -> 3 [] OTHER -> 0

\* The lines typed by the player.
RawLines ==
  { <<" ", "C", " ">>,
    <<"1">>, <<"2">>, <<"\t", "3">>,
    <<"1", "a">>, <<"1", "B">>, <<"2", "a">>, <<"2", "B", " ">>,
    <<"3", "A">>, <<"3", "b">>,
    <<"s">>, <<" ", "L">>, <<"Q">>,
    << >>, <<"4">>, <<"1", " ", "a">> }

BuildingCommands == { <<"1">>, <<"2">>, <<"3">> }
UpgradeCommands ==
  { <<"1", "a">>, <<"1", "b">>, <<"2", "a">>, <<"2", "b">>, <<"3", "a">>, <<"3", "b">> }
KnownCommands ==
  { <<"c">>, <<"s">>, <<"l">>, <<"q">> } \cup BuildingCommands \cup UpgradeCommands

\* The arguments the six upgrade cases pass to buyUpgrade.
upgradeArgs(input) ==
  CASE input = <<"1", "a">> -> <<0, 0>>
    [] input = <<"1", "b">> -> <<0, 1>>
    [] input = <<"2", "a">> -> <<1, 0>>
    [] input = <<"2", "b">> -> <<1, 1>>
    [] input = <<"3", "a">> -> <<2, 0>>
    [] OTHER -> <<2, 1>>

(***************************************************************************)
(* Initial state: the module-level declarations (lines 30-103 and 231)     *)
(* have run; the start-up statements (lines 300-311) have not.             *)
(***************************************************************************)
Init ==
  /\ now = 0
  /\ gameState = InitialGameState(0)
  /\ file \in {NoFile, TruncatedFile}
  /\ lastUpdate = 0
  /\ pc = "init"
  /\ timerActive = FALSE
  /\ exitCode = -1
  /\ last = Event(<<"launch">>, "void", "")
  /\ bought = {}

(***************************************************************************)
(* Actions.                                                                *)
(***************************************************************************)
\* The wall clock moves on.
ClockAdvance ==
  /\ now + ClockStep <= MaxClock * ClockStep
  /\ now' = now + ClockStep
  /\ UNCHANGED <<gameState, file, lastUpdate, pc, timerActive, exitCode, last, bought>>

\* start-up resuming the clock of the ticks at the time of the loaded save
Startup_offline ==
  /\ pc = "init"
  /\ LET r == loadGame(gameState, file)
     IN  /\ gameState' = r.gs
         /\ lastUpdate' = IF r.ret THEN r.gs.lastSaved ELSE lastUpdate
         /\ last' = Event(<<"startup">>, IF r.ret THEN "true" ELSE "false", r.out)
  /\ timerActive' = TRUE
  /\ pc' = "running"
  /\ UNCHANGED <<file, now, exitCode, bought>>

\* Lines 300-311: load the save if there is one, start the timer, listen.
Startup ==
  /\ pc = "init"
  /\ LET r == loadGame(gameState, file)
     IN  /\ gameState' = r.gs
         /\ last' = Event(<<"startup">>, IF r.ret THEN "true" ELSE "false", r.out)
  /\ timerActive' = TRUE
  /\ pc' = "running"
  /\ UNCHANGED <<file, now, lastUpdate, exitCode, bought>>

\* gameLoop crediting one timer period whatever time has passed
tick_nominal(gs, elapsedMs) ==
  LET pointsGained == getTotalProduction(gs) * TickInterval
  IN  [gs EXCEPT !.points = @ + pointsGained,
                 !.totalPointsEarned = @ + pointsGained]

\* gameLoop crediting the balance and not the lifetime counter
tick_pointsOnly(gs, elapsedMs) ==
  LET pointsGained == getTotalProduction(gs) * elapsedMs
  IN  [gs EXCEPT !.points = @ + pointsGained]

\* gameLoop: one tick of the interval timer.
tick(gs, elapsedMs) ==
  LET pointsGained == getTotalProduction(gs) * elapsedMs
  IN  [gs EXCEPT !.points = @ + pointsGained,
                 !.totalPointsEarned = @ + pointsGained]

gameLoop ==
  /\ pc = "running"
  /\ timerActive
  /\ tick(gameState, now - lastUpdate).totalPointsEarned <= MaxEarned * Scale
  /\ gameState' = tick(gameState, now - lastUpdate)
  /\ lastUpdate' = now
  /\ last' = Event(<<"tick">>, "void", "=== TERMINAL CLICKER GAME ===")
  /\ UNCHANGED <<file, now, pc, timerActive, exitCode, bought>>

\* handleInput, one action per group of cases of the switch.
InputClick(input) ==
  /\ input = <<"c">>
  /\ gameState.totalPointsEarned + gameState.clickPower <= MaxClicked * Scale
  /\ gameState' = click(gameState)
  /\ last' = Event(input, "void", "")
  /\ UNCHANGED <<file, now, lastUpdate, pc, timerActive, exitCode, bought>>

InputBuyBuilding(input) ==
  /\ input \in BuildingCommands
  /\ LET buildingIndex == parseInt(input) - 1
         r == buyBuilding(gameState, buildingIndex)
     IN  /\ r.gs.buildings[buildingIndex].count <= MaxCount
         /\ gameState' = r.gs
         /\ last' = IF r.ret
                    THEN Event(input, "true", "Purchased a " \o name(buildingIndex) \o "!")
                    ELSE Event(input, "false", "Not enough points!")
  /\ UNCHANGED <<file, now, lastUpdate, pc, timerActive, exitCode, bought>>

InputBuyUpgrade(input) ==
  /\ input \in UpgradeCommands
  /\ LET args == upgradeArgs(input)
         r == buyUpgrade(gameState, args[1], args[2])
     IN  /\ gameState' = r.gs
         /\ last' = IF r.ret
                    THEN Event(input, "true", "Upgrade purchased!")
                    ELSE Event(input, "false", "Not enough points or already purchased!")
         /\ bought' = IF r.ret THEN bought \cup {args} ELSE bought
  /\ UNCHANGED <<file, now, lastUpdate, pc, timerActive, exitCode>>

\* case 's': an exception of saveGame is caught nowhere; it leaves
\* handleInput and the 'line' listener and ends the process with code 1.
InputSave(input) ==
  /\ input = <<"s">>
  /\ \E io \in WriteOutcome :
     LET r == saveGame(gameState, file, now, io)
     IN  /\ gameState' = r.gs
         /\ file' = r.file
         /\ IF r.threw
            THEN /\ pc' = "crashed"
                 /\ timerActive' = FALSE
                 /\ exitCode' = 1
                 /\ last' = Event(input, "throw", "Uncaught Error")
            ELSE /\ last' = Event(input, "void", r.out)
                 /\ UNCHANGED <<pc, timerActive, exitCode>>
  /\ UNCHANGED <<now, lastUpdate, bought>>

InputLoad(input) ==
  /\ input = <<"l">>
  /\ LET r == loadGame(gameState, file)
     IN  /\ gameState' = r.gs
         /\ last' = Event(input, IF r.ret THEN "true" ELSE "false", r.out)
  /\ UNCHANGED <<file, now, lastUpdate, pc, timerActive, exitCode, bought>>

\* case 'q' saving the game before it exits
InputQuit_autosaves(input) ==
  /\ input = <<"q">>
  /\ LET r == saveGame(gameState, file, now, "written")
     IN  /\ gameState' = r.gs
         /\ file' = r.file
  /\ last' = Event(input, "void", "Thanks for playing!")
  /\ timerActive' = FALSE
  /\ pc' = "exited"
  /\ exitCode' = 0
  /\ UNCHANGED <<now, lastUpdate, bought>>

InputQuit(input) ==
  /\ input = <<"q">>
  /\ last' = Event(input, "void", "Thanks for playing!")
  /\ timerActive' = FALSE
  /\ pc' = "exited"
  /\ exitCode' = 0
  /\ UNCHANGED <<gameState, file, now, lastUpdate, bought>>

\* the default case falling into click
InputDefault_clicks(input) ==
  /\ input \notin KnownCommands
  /\ gameState' = click(gameState)
  /\ last' = Event(input, "void", "Unknown command. Try again.")
  /\ UNCHANGED <<file, now, lastUpdate, pc, timerActive, exitCode, bought>>

InputDefault(input) ==
  /\ input \notin KnownCommands
  /\ last' = Event(input, "void", "Unknown command. Try again.")
  /\ UNCHANGED <<gameState, file, now, lastUpdate, pc, timerActive, exitCode, bought>>

handleInput(line) ==
  /\ pc = "running"
  /\ LET input == toLowerCase(trim(line))
     IN  \/ InputClick(input)
         \/ InputBuyBuilding(input)
         \/ InputBuyUpgrade(input)
         \/ InputSave(input)
         \/ InputLoad(input)
         \/ InputQuit(input)
         \/ InputDefault(input)

\* The player starts the program again after it has ended.
Relaunch ==
  /\ pc \in {"exited", "crashed"}
  /\ gameState' = InitialGameState(now)
  /\ lastUpdate' = now
  /\ pc' = "init"
  /\ timerActive' = FALSE
  /\ exitCode' = -1
  /\ last' = Event(<<"launch">>, "void", "")
  /\ bought' = {}
  /\ UNCHANGED <<file, now>>

Next ==
  \/ ClockAdvance
  \/ Startup
  \/ gameLoop
  \/ \E line \in RawLines : handleInput(line)
  \/ Relaunch

Spec == Init /\ [][Next]_vars

(***************************************************************************)
(* Games in progress.  Any counts and any purchased flags are reached by   *)
(* clicking up to the price of each purchase and buying it; such a game    *)
(* has spent all it earned.  SpecEconomy starts in the state of a process  *)
(* that has just loaded the save of such a game, and lets the timer fire   *)
(* at its period.                                                          *)
(***************************************************************************)
\* What buyBuilding has debited for the first n buildings of kind i.
RECURSIVE costOfCount(_, _)
costOfCount(i, n) ==
  IF n = 0 THEN 0
  ELSE costOfCount(i, n - 1) + getBuildingCost(i, Building(n - 1, FALSE, FALSE))

\* What buyUpgrade has debited for the purchased upgrades of building b.
costOfUpgrades(i, b) ==
  (IF b.purchased[0] THEN upgradeCost(i, 0) ELSE 0)
    + (IF b.purchased[1] THEN upgradeCost(i, 1) ELSE 0)

\* The cost, in points, of everything gs owns.
committedCost(gs) ==
  costOfCount(0, gs.buildings[0].count) + costOfUpgrades(0, gs.buildings[0])
    + costOfCount(1, gs.buildings[1].count) + costOfUpgrades(1, gs.buildings[1])
    + costOfCount(2, gs.buildings[2].count) + costOfUpgrades(2, gs.buildings[2])

GameInProgress(counts, flags) ==
  LET owned == [InitialGameState(0) EXCEPT
                  !.buildings = [i \in BuildingIndex |->
                                   [count |-> counts[i], purchased |-> flags[i]]]]
  IN  [owned EXCEPT !.totalPointsEarned = committedCost(owned) * Scale]

GamesInProgress ==
  { GameInProgress(counts, flags) :
      counts \in [BuildingIndex -> 0 .. MaxCount],
      flags \in [BuildingIndex -> [UpgradeIndex -> BOOLEAN]] }

InitEconomy ==
  /\ now = 0
  /\ gameState \in GamesInProgress
  /\ file = [exists |-> TRUE, data |-> stringify(gameState)]
  /\ lastUpdate = 0
  /\ pc = "running"
  /\ timerActive = TRUE
  /\ exitCode = -1
  /\ last = Event(<<"startup">>, "true", "Game loaded!")
  /\ bought = {}

\* The timer fires one period after the previous tick.
IntervalTick ==
  /\ pc = "running"
  /\ timerActive
  /\ now + TickInterval <= MaxIntervalTicks * TickInterval
  /\ now' = now + TickInterval
  /\ gameState' = tick(gameState, now' - lastUpdate)
  /\ lastUpdate' = now'
  /\ last' = Event(<<"tick">>, "void", "=== TERMINAL CLICKER GAME ===")
  /\ UNCHANGED <<file, pc, timerActive, exitCode, bought>>

NextEconomy == IntervalTick

SpecEconomy == InitEconomy /\ [][NextEconomy]_vars

(***************************************************************************)
(* Properties.                                                             *)
(***************************************************************************)
\* Every action but ClockAdvance records its event in last, and ClockAdvance
\* alone moves the clock: a step that leaves now alone is the event last'.
\* InputStep(cmd): handleInput processes a line whose trimmed, lower-cased
\* form is cmd.
InputStep(cmd) == pc = "running" /\ now' = now /\ last'.cmd = cmd

\* A step of loadGame: the `l` command or the load at start-up.
LoadStep == InputStep(<<"l">>) \/ (pc = "init" /\ last'.cmd = <<"startup">>)

commandOfBuilding(index) ==
  CASE index = 0 -> <<"1">> [] index = 1 -> <<"2">> [] OTHER -> <<"3">>

commandOfUpgrade(b, u) ==
  <<commandOfBuilding(b)[1], IF u = 0 THEN "a" ELSE "b">>

\* C1: buying building i is all-or-nothing.  With cost the cost of
\* buildings[i] at the call: if points >= cost the purchase reports success,
\* points drops by exactly cost and the count rises by exactly 1; otherwise
\* it reports failure and gameState is unchanged.  points = cost succeeds
\* and leaves 0 points.
C1_BuyBuildingAllOrNothing ==
  [][\A index \in BuildingIndex :
       InputStep(commandOfBuilding(index)) =>
         LET cost == getBuildingCost(index, gameState.buildings[index]) * Scale
         IN  /\ gameState.points >= cost =>
                  /\ last'.ret = "true"
                  /\ gameState'.points = gameState.points - cost
                  /\ gameState'.buildings[index].count =
                       gameState.buildings[index].count + 1
             /\ gameState.points = cost => gameState'.points = 0
             /\ gameState.points < cost =>
                  /\ last'.ret = "false"
                  /\ gameState' = gameState]_vars

\* The 15th click made points equal to the cost of the first Cursor, and
\* the purchase has left no points and one Cursor.
C1_Witness ==
  /\ last = Event(<<"1">>, "true", "Purchased a Cursor!")
  /\ gameState.points = 0
  /\ gameState.totalPointsEarned = 15 * Scale
  /\ gameState.buildings[0].count = 1

upgradeCommandArgs == BuildingIndex \X UpgradeIndex

purchasedFlag(gs, b, u) == gs.buildings[b].purchased[u]

\* what buyUpgrade(b, u) is bound to do on its own
UpgradeContract(b, u) ==
  LET cost == upgradeCost(b, u) * Scale
      ok == ~purchasedFlag(gameState, b, u) /\ gameState.points >= cost
  IN  /\ last'.ret = (IF ok THEN "true" ELSE "false")
      /\ ok => /\ gameState'.points = gameState.points - cost
               /\ purchasedFlag(gameState', b, u)
      /\ ~ok => gameState' = gameState

\* C2 as claimed: buyUpgrade succeeds only if the flag is false and points
\* >= cost, then debits exactly cost and sets the flag, and otherwise
\* changes nothing; and once an upgrade has been bought, every later call for
\* it, after any sequence of operations, fails and changes nothing.
C2_SecondPurchaseFailsInAnySequence ==
  [][\A a \in upgradeCommandArgs :
       InputStep(commandOfUpgrade(a[1], a[2])) =>
         /\ UpgradeContract(a[1], a[2])
         /\ a \in bought => last'.ret = "false" /\ gameState' = gameState]_vars

\* a successful loadGame: the state is replaced by the one in the file
LoadSuccess == LoadStep /\ last'.ret = "true"

\* C2, amended: the contract of a single call as claimed (a call for an
\* upgrade whose flag is true fails whatever the balance is); and the flag of
\* an upgrade stays true over every step but a successful load, so that of
\* two purchases of one upgrade with no successful load in between the
\* second fails and changes nothing.
C2_SecondPurchaseFailsUnlessLoaded ==
  [][/\ \A a \in upgradeCommandArgs :
          InputStep(commandOfUpgrade(a[1], a[2])) =>
            /\ UpgradeContract(a[1], a[2])
            /\ purchasedFlag(gameState, a[1], a[2]) =>
                 last'.ret = "false" /\ gameState' = gameState
     /\ pc' # "init" /\ ~LoadSuccess =>
          \A a \in upgradeCommandArgs :
            purchasedFlag(gameState, a[1], a[2]) => purchasedFlag(gameState', a[1], a[2])
    ]_vars

\* Faster Clicking was bought, and a second attempt with 200 points in hand
\* has failed.
C2_Witness ==
  /\ last = Event(<<"1", "a">>, "false", "Not enough points or already purchased!")
  /\ <<0, 0>> \in bought
  /\ purchasedFlag(gameState, 0, 0)
  /\ gameState.points >= upgradeCost(0, 0) * Scale

\* C3: points is never negative, and a purchase commits only from a state
\* where points >= cost.
C3_PointsNeverNegative ==
  /\ [](gameState.points >= 0)
  /\ [][/\ \A index \in BuildingIndex :
             InputStep(commandOfBuilding(index)) /\ last'.ret = "true" =>
               gameState.points >=
                 getBuildingCost(index, gameState.buildings[index]) * Scale
        /\ \A a \in upgradeCommandArgs :
             InputStep(commandOfUpgrade(a[1], a[2])) /\ last'.ret = "true" =>
               gameState.points >= upgradeCost(a[1], a[2]) * Scale
       ]_vars

\* An upgrade was bought with exactly its price in hand.
C3_Witness ==
  /\ last = Event(<<"1", "a">>, "true", "Upgrade purchased!")
  /\ gameState.points = 0
  /\ purchasedFlag(gameState, 0, 0)

\* C4 as claimed: no step of a run lowers totalPointsEarned.
C4_TotalNeverDecreases ==
  [][pc' # "init" =>
       gameState'.totalPointsEarned >= gameState.totalPointsEarned]_vars

\* C4, amended: no step of a run other than a successful load lowers
\* totalPointsEarned; a successful load sets it to the value in the file.
C4_TotalNeverDecreasesButOnLoad ==
  [][pc' # "init" =>
       IF LoadSuccess
       THEN gameState'.totalPointsEarned = parse(file.data).totalPointsEarned
       ELSE gameState'.totalPointsEarned >= gameState.totalPointsEarned]_vars

\* A tick has credited production on top of the points clicked and spent.
C4_Witness ==
  /\ last.cmd = <<"tick">>
  /\ gameState.totalPointsEarned >= 115 * Scale
  /\ gameState.totalPointsEarned > gameState.points

\* C5 as claimed: a purchased flag that is true stays true over every step
\* of a run.
C5_PurchasedIrreversible ==
  [][pc' # "init" =>
       \A a \in upgradeCommandArgs :
         purchasedFlag(gameState, a[1], a[2]) => purchasedFlag(gameState', a[1], a[2])]_vars

\* C5, amended: a purchased flag that is true stays true over every step of
\* a run other than a successful load, which sets every flag to its value in
\* the file.
C5_PurchasedIrreversibleButOnLoad ==
  [][pc' # "init" =>
       \A a \in upgradeCommandArgs :
         IF LoadSuccess
         THEN purchasedFlag(gameState', a[1], a[2])
                = purchasedFlag(parse(file.data), a[1], a[2])
         ELSE purchasedFlag(gameState, a[1], a[2])
                => purchasedFlag(gameState', a[1], a[2])]_vars

\* Faster Clicking is still purchased after a later tick has paid out at the
\* doubled rate.
C5_Witness ==
  /\ last.cmd = <<"tick">>
  /\ purchasedFlag(gameState, 0, 0)
  /\ gameState.points >= 200 * Scale

\* C6: a load of a file that exists and does not parse logs the error,
\* returns false, leaves the process running with its timer, and leaves
\* gameState as it was.
C6_CorruptLoadKeepsState ==
  [][LoadStep /\ file.exists /\ parseThrows(file.data) =>
       /\ last'.ret = "false"
       /\ last'.out = "Error loading save file:"
       /\ gameState' = gameState
       /\ pc' = "running"
       /\ timerActive']_vars

\* The `l` command met a truncated file in the middle of a game.
C6_Witness ==
  /\ last = Event(<<"l">>, "false", "Error loading save file:")
  /\ gameState.points > 0
  /\ gameState.buildings[0].count = 1
  /\ pc = "running"

\* C7 as claimed: a load with no save file reports that no save was found,
\* returns not-found, raises nothing and leaves gameState as it was.
C7_AbsentLoadReported ==
  [][LoadStep /\ ~file.exists =>
       /\ last'.ret = "false"
       /\ last'.out # ""
       /\ gameState' = gameState
       /\ pc' = "running"]_vars

\* the fields of a game other than lastSaved
SameGame(a, b) ==
  /\ a.points = b.points
  /\ a.totalPointsEarned = b.totalPointsEarned
  /\ a.clickPower = b.clickPower
  /\ \A i \in BuildingIndex :
       /\ a.buildings[i].count = b.buildings[i].count
       /\ \A j \in UpgradeIndex : a.buildings[i].purchased[j] = b.buildings[i].purchased[j]

\* C8: a load right after a save, from any in-memory state, yields the state
\* the save left, which is the state before the save in all but lastSaved;
\* only a save changes the file; and a successful load yields the state the
\* file holds - so a load after later events restores the state saved.
C8_SaveLoadRoundTrip ==
  [][/\ InputStep(<<"s">>) /\ last'.ret = "void" =>
          LET r == loadGame(InitialGameState(now), file')
          IN  /\ r.ret
              /\ r.gs = gameState'
              /\ SameGame(r.gs, gameState)
     /\ ~InputStep(<<"s">>) => file' = file
     /\ LoadStep /\ file.exists /\ ~parseThrows(file.data) =>
          /\ last'.ret = "true"
          /\ gameState' = parse(file.data)
          /\ SameGame(gameState', parse(file.data))
    ]_vars

\* A game with a Cursor and production credited was saved, and was loaded
\* back at a later time.
C8_Witness ==
  /\ last = Event(<<"l">>, "true", "Game loaded!")
  /\ gameState.buildings[0].count = 1
  /\ gameState.totalPointsEarned > MaxClicked * Scale
  /\ gameState.points > 0
  /\ now > gameState.lastSaved

\* C9 as claimed: when the write of the `s` command fails, the failure is
\* reported and the process keeps running, its timer still set.
C9_SaveFailureSurvived ==
  [][InputStep(<<"s">>) /\ last'.ret = "throw" =>
       /\ pc' = "running"
       /\ timerActive'
       /\ exitCode' = -1]_vars

NormalizedLines == {toLowerCase(trim(line)) : line \in RawLines}

\* C10: a line that is none of the thirteen commands after trimming and
\* lower-casing is reported as unknown, and changes neither gameState nor
\* the save file nor the timer.
C10_UnknownCommandChangesNothing ==
  [][\A cmd \in NormalizedLines \ KnownCommands :
       InputStep(cmd) =>
         /\ last'.out = "Unknown command. Try again."
         /\ UNCHANGED <<gameState, file, timerActive, pc, lastUpdate, exitCode>>]_vars

\* An unknown line was typed in the middle of a game.
C10_Witness ==
  /\ last = Event(<<"1", " ", "a">>, "void", "Unknown command. Try again.")
  /\ gameState.points > 0
  /\ gameState.buildings[0].count = 1
  /\ file.exists
  /\ timerActive


\* The purchase lines of RawLines with the call C11 assigns to each: the
\* function and the indices, after removing the surrounding whitespace and
\* the case of the letters.
PurchaseLines ==
  { [line |-> <<"1">>,           fn |-> "buyBuilding", args |-> <<0, 0>>],
    [line |-> <<"2">>,           fn |-> "buyBuilding", args |-> <<1, 0>>],
    [line |-> <<"\t", "3">>,     fn |-> "buyBuilding", args |-> <<2, 0>>],
    [line |-> <<"1", "a">>,      fn |-> "buyUpgrade",  args |-> <<0, 0>>],
    [line |-> <<"1", "B">>,      fn |-> "buyUpgrade",  args |-> <<0, 1>>],
    [line |-> <<"2", "a">>,      fn |-> "buyUpgrade",  args |-> <<1, 0>>],
    [line |-> <<"2", "B", " ">>, fn |-> "buyUpgrade",  args |-> <<1, 1>>],
    [line |-> <<"3", "A">>,      fn |-> "buyUpgrade",  args |-> <<2, 0>>],
    [line |-> <<"3", "b">>,      fn |-> "buyUpgrade",  args |-> <<2, 1>>] }

\* C11: the lines 1, 2, 3 call buyBuilding(0), (1), (2) and the lines Na,
\* Nb call buyUpgrade(N-1, 0) and buyUpgrade(N-1, 1), whatever the case of
\* the letter and the whitespace around the line; every index passed is an
\* index of the building list or of the upgrade list; the command leaves the
\* state the call leaves, reports the one message of its outcome, and the
\* process keeps running.
C11_PurchaseCommandsDispatch ==
  [][\A d \in PurchaseLines :
       InputStep(toLowerCase(trim(d.line))) =>
         LET isBuilding == d.fn = "buyBuilding"
             r == IF isBuilding
                  THEN buyBuilding(gameState, d.args[1])
                  ELSE buyUpgrade(gameState, d.args[1], d.args[2])
             success == IF isBuilding
                        THEN "Purchased a " \o name(d.args[1]) \o "!"
                        ELSE "Upgrade purchased!"
             failure == IF isBuilding
                        THEN "Not enough points!"
                        ELSE "Not enough points or already purchased!"
         IN  /\ d.args[1] \in BuildingIndex
             /\ d.args[2] \in UpgradeIndex
             /\ gameState' = r.gs
             /\ last'.ret = IF r.ret THEN "true" ELSE "false"
             /\ last'.out = IF r.ret THEN success ELSE failure
             /\ pc' = "running"
             /\ exitCode' = -1]_vars

\* The line 1B was typed with points in hand but fewer than upgrade 1b
\* costs: it was taken as 1b and buyUpgrade(0, 1) reported the failure.
C11_Witness ==
  /\ last = Event(<<"1", "b">>, "false", "Not enough points or already purchased!")
  /\ gameState.points > 0
  /\ ~gameState.buildings[0].purchased[1]
  /\ pc = "running"


TickStep == InputStep(<<"tick">>)

NothingOwned(gs) ==
  \A i \in BuildingIndex :
    /\ gs.buildings[i].count = 0
    /\ \A j \in UpgradeIndex : ~gs.buildings[i].purchased[j]

\* C12: a launched process starts with no points, and as long as no
\* building and no upgrade is owned the click power is 1, points equals
\* totalPointsEarned, every click adds exactly 1 to both and every tick adds
\* nothing, so that after n clicks with any ticks in between both are n.
\* With 15 points the command 1 succeeds and leaves 0 points and one Cursor.
C12_ClicksOfAFreshGame ==
  /\ [](/\ pc = "init" => /\ gameState.points = 0
                          /\ gameState.totalPointsEarned = 0
                          /\ NothingOwned(gameState)
        /\ NothingOwned(gameState) =>
             /\ gameState.clickPower = 1 * Scale
             /\ gameState.points = gameState.totalPointsEarned)
  /\ [][NothingOwned(gameState) =>
          /\ InputStep(<<"c">>) =>
               /\ gameState'.points = gameState.points + 1 * Scale
               /\ gameState'.totalPointsEarned = gameState.totalPointsEarned + 1 * Scale
               /\ NothingOwned(gameState')
          /\ TickStep =>
               /\ gameState'.points = gameState.points
               /\ gameState'.totalPointsEarned = gameState.totalPointsEarned
               /\ NothingOwned(gameState')
          /\ InputStep(<<"1">>) /\ gameState.points = 15 * Scale =>
               /\ last'.ret = "true"
               /\ gameState'.points = 0
               /\ gameState'.buildings[0].count = 1]_vars

\* Fifteen clicks have been made, time has passed and a tick has run: the
\* player has 15 points, all of them earned by clicking, and owns nothing.
C12_Witness ==
  /\ last.cmd = <<"tick">>
  /\ lastUpdate > 0
  /\ NothingOwned(gameState)
  /\ gameState.points = 15 * Scale
  /\ gameState.totalPointsEarned = 15 * Scale


\* The product of the multipliers of a set of upgrades of building i, taken
\* in whatever order.
RECURSIVE multiplierProduct(_, _)
multiplierProduct(i, upgrades) ==
  IF upgrades = {} THEN 1
  ELSE LET j == CHOOSE u \in upgrades : \A v \in upgrades : u >= v
       IN  productionMultiplier(i, j) * multiplierProduct(i, upgrades \ {j})

RECURSIVE productionSum(_, _)
productionSum(gs, indices) ==
  IF indices = {} THEN 0
  ELSE LET i == CHOOSE x \in indices : TRUE
       IN  getBuildingProduction(i, gs.buildings[i]) + productionSum(gs, indices \ {i})

\* C13: the production of a building is count * baseProduction * the
\* product of the multipliers of its purchased upgrades, in whatever order
\* they are taken; it is 0 when count is 0 whichever upgrades are purchased;
\* the total production is the sum over the buildings.
C13_ProductionFormula ==
  /\ \A i \in BuildingIndex :
       LET b == gameState.buildings[i]
           owned == {j \in UpgradeIndex : b.purchased[j]}
       IN  /\ getBuildingProduction(i, b) =
                b.count * baseProduction(i) * multiplierProduct(i, owned)
           /\ b.count = 0 => getBuildingProduction(i, b) = 0
  /\ getTotalProduction(gameState) = productionSum(gameState, BuildingIndex)

\* Two Farms with both upgrades (2 * 1 * 2 * 3 = 12 points per second), a
\* Cursor kind with both upgrades and no Cursor, no Factory: one period of
\* 100 ms has credited 1.2 points.
C13_Witness ==
  /\ last.cmd = <<"tick">>
  /\ now = TickInterval
  /\ gameState.buildings[0] = Building(0, TRUE, TRUE)
  /\ gameState.buildings[1] = Building(2, TRUE, TRUE)
  /\ gameState.buildings[2].count = 0
  /\ gameState.points = 12 * TenthsPerPoint * TickInterval


\* floor(baseCost * 1.15^n) in exact arithmetic, 1.15 being 23/20
floorCost(i, n) == (baseCost(i) * Pow(23, n)) \div Pow(20, n)

\* C14 as claimed: for every building, with n its count, the price is
\* floor(baseCost * 1.15^n); the price at count 0 is baseCost; the price at
\* n + 1 is 1.15 times the price at n up to the rounding of the floors, and
\* is not lower than the price at n.
C14_CostIsFloorOfGeometric ==
  \A i \in BuildingIndex :
    LET b == gameState.buildings[i]
        cost == getBuildingCost(i, b)
        next == getBuildingCost(i, [b EXCEPT !.count = @ + 1])
    IN  /\ cost = floorCost(i, b.count)
        /\ getBuildingCost(i, [b EXCEPT !.count = 0]) = baseCost(i)
        /\ 20 * (next + 1) >= 23 * cost
        /\ 20 * next <= 23 * (cost + 1)
        /\ next >= cost


\* A new process starts: the step that leaves an ended process.
LaunchStep == pc \in {"exited", "crashed"} /\ pc' = "init"

\* The balance once the time since the previous tick is credited.
accrued(gs, t, previousTick) ==
  gs.points + getTotalProduction(gs) * (t - previousTick)

\* C15: a tick adds totalProduction * (now - time of the previous tick) to
\* points and to totalPointsEarned, however long that time is, and makes
\* now the time of the previous tick; it changes nothing the production
\* depends on, and between two ticks of a process nothing else moves the
\* time of the previous tick.  So a tick leaves the accrued balance as it
\* was: what a run of ticks credits is totalProduction * (time of the last
\* tick - time of the tick before the run), however many ticks fired and
\* whenever.
C15_TickCreditsElapsedTime ==
  /\ [][TickStep =>
          LET pointsGained == getTotalProduction(gameState) * (now - lastUpdate)
          IN  /\ gameState'.points = gameState.points + pointsGained
              /\ gameState'.totalPointsEarned =
                   gameState.totalPointsEarned + pointsGained
              /\ lastUpdate' = now
              /\ gameState'.buildings = gameState.buildings
              /\ accrued(gameState', now', lastUpdate') =
                   accrued(gameState, now, lastUpdate)]_vars
  /\ [][~TickStep /\ ~LaunchStep => lastUpdate' = lastUpdate]_vars

\* One Cursor bought with the first 15 points at time 0 has produced 0.1
\* point per second for 2 * ClockStep milliseconds: 0.2 * ClockStep / 1000
\* points, in one tick or in two.
C15_Witness ==
  /\ last.cmd = <<"tick">>
  /\ lastUpdate = 2 * ClockStep
  /\ gameState.buildings[0] = Building(1, FALSE, FALSE)
  /\ gameState.buildings[1].count = 0
  /\ gameState.points = baseProduction(0) * 2 * ClockStep
  /\ gameState.totalPointsEarned = 15 * Scale + baseProduction(0) * 2 * ClockStep


StartupStep == pc = "init" /\ pc' = "running"

\* C16: a process that has started and not yet run its start-up has the
\* time of its start as the time of the previous tick; the start-up leaves
\* that time alone, and when it loads a save, points, totalPointsEarned and
\* the rest of gameState are exactly what the file holds; the tick that
\* follows credits production for the time since the previous tick, that
\* is since the start of this process, whenever the save was made.
C16_NoOfflineProgress ==
  /\ [](pc = "init" => lastUpdate = gameState.lastSaved /\ lastUpdate <= now)
  /\ [][LaunchStep => lastUpdate' = now']_vars
  /\ [][StartupStep =>
          /\ lastUpdate' = lastUpdate
          /\ last'.ret = "true" =>
               /\ gameState'.points = parse(file.data).points
               /\ gameState'.totalPointsEarned = parse(file.data).totalPointsEarned
               /\ gameState' = parse(file.data)]_vars
  /\ [][TickStep /\ last.cmd = <<"startup">> =>
          gameState'.points - gameState.points =
            getTotalProduction(gameState) * (now - lastUpdate)]_vars

\* A process started after the save was made, and some time before its
\* start-up ran, has loaded a game that produces points: the time since the
\* save is longer than the time since the start.
C16_Witness ==
  /\ last = Event(<<"startup">>, "true", "Game loaded!")
  /\ getTotalProduction(gameState) > 0
  /\ gameState.lastSaved < lastUpdate
  /\ lastUpdate < now
  /\ gameState.points = parse(file.data).points


\* C17 as claimed: the command q prints the farewell, cancels the timer and
\* ends the process with exit code 0; once q has been processed nothing
\* changes gameState; and from the start-up until q is processed the timer
\* of the ticks stays set.
C17_OnlyQuitStopsTheTicks ==
  /\ [][InputStep(<<"q">>) =>
          /\ last'.out = "Thanks for playing!"
          /\ ~timerActive'
          /\ pc' = "exited"
          /\ exitCode' = 0]_vars
  /\ [][pc = "exited" /\ ~LaunchStep => gameState' = gameState]_vars
  /\ [](\/ pc = "init"
        \/ timerActive
        \/ pc = "exited" /\ last.cmd = <<"q">> /\ exitCode = 0)


\* The file holds a game that loadGame can read.
Readable(f) == f.exists /\ ~parseThrows(f.data)

\* No step but a command s changes the file; a new process starts from the
\* initial literal, and its start-up leaves what a readable file holds, or
\* the initial literal.
OnlySaveWrites ==
  /\ [][file' # file => InputStep(<<"s">>)]_vars
  /\ [][InputStep(<<"q">>) => file' = file]_vars
  /\ [][LaunchStep => gameState' = InitialGameState(now)]_vars
  /\ [][StartupStep =>
          IF Readable(file)
          THEN gameState' = parse(file.data)
          ELSE gameState' = gameState /\ NothingOwned(gameState')]_vars

\* The saved game a start-up finds in the file, if any.
savedGames(f) == IF Readable(f) THEN {parse(f.data)} ELSE {}

\* C18 as claimed: only s writes the file, and what a relaunch loads is the
\* state at the last explicit save: a command s either leaves the file
\* holding the state at that command, or, failing, leaves in the file the
\* saved game it held, if it held one.
C18_RelaunchLoadsLastSave ==
  /\ OnlySaveWrites
  /\ [][InputStep(<<"s">>) =>
          \/ savedGames(file') = {gameState'}
          \/ last'.ret = "throw" /\ savedGames(file') = savedGames(file)]_vars

\* C18, amended: only s writes the file; a command s that completes leaves
\* the file holding the state at that command; one that fails leaves the
\* file as it was or truncated, and a truncated file is not readable, so
\* that the relaunch starts from the initial literal.
C18_RelaunchLoadsLastCompletedSave ==
  /\ OnlySaveWrites
  /\ [][InputStep(<<"s">>) =>
          \/ /\ last'.ret = "void"
             /\ savedGames(file') = {gameState'}
          \/ /\ last'.ret = "throw"
             /\ file' = file \/ (file'.exists /\ savedGames(file') = {})]_vars

\* The player has quit a game that had earned more than the file holds:
\* the quit has not written the file, and what was earned after the save is
\* not in it.
C18_Witness ==
  /\ pc = "exited"
  /\ last.cmd = <<"q">>
  /\ Readable(file)
  /\ parse(file.data).totalPointsEarned < gameState.totalPointsEarned
  /\ parse(file.data).buildings[0].count < gameState.buildings[0].count


C20_EarnedMinusPointsIsSpent ==
  /\ [](/\ gameState.totalPointsEarned - gameState.points =
             committedCost(gameState) * Scale
        /\ gameState.totalPointsEarned >= gameState.points)
  /\ [][TickStep \/ InputStep(<<"c">>) =>
          /\ gameState'.points - gameState.points =
               gameState'.totalPointsEarned - gameState.totalPointsEarned
          /\ gameState'.buildings = gameState.buildings]_vars

\* A Cursor and its first upgrade have been bought and a tick has credited
\* their production: 115 points of the points earned are spent.
C20_Witness ==
  /\ last.cmd = <<"tick">>
  /\ gameState.buildings[0] = Building(1, TRUE, FALSE)
  /\ gameState.points >= 200 * Scale
  /\ gameState.totalPointsEarned - gameState.points = (15 + 100) * Scale

=============================================================================
